---- MODULE Spec2Model ----
(***************************************************************************)
(* Account service of nabazesmail/nGO-APIX-MySQL (src/src/services/         *)
(* services.go): CreateUser, GetUserByID (cache-aside read through Redis),  *)
(* UpdateUserByID, DeleteUserByID and AuthenticateUser, run as concurrent   *)
(* requests against one store and one cache.  Every repository or cache     *)
(* call is one step of a request, so requests interleave between calls.     *)
(* The profile picture handlers and GetAllUsers take no part in what is     *)
(* checked here and are left out.                                           *)
(***************************************************************************)
EXTENDS Integers, Sequences, FiniteSets, TLC

\* ------------------------------------------------------------------ bounds
\* Number of request slots that run concurrently.
NumProcs == 2
\* Number of rows the store ever assigns an id to.
MaxUsers == 1
\* Minutes that pass in one Tick of the clock.
TickMinutes == 5

\* --------------------------------------------------------------- constants
userCachePrefix == "user:"
\* A time to live of twice the length.
cacheExpiration_double == 2 * 10
\* cacheExpiration = 10 * time.Minute, in minutes.
cacheExpiration == 10

Procs == 1..NumProcs
UserIDs == {ToString(n) : n \in 1..MaxUsers}
\* The salts bcrypt draws from.
Salts == {"s1"}

\* models.Active / models.Inactive, models.Admin / models.Operator.
Statuses == {"Active", "Inactive"}
Roles == {"Admin", "Operator"}
Letters == {"a", "b", "z"}

\* ------------------------------------------------------------------- users
\* *models.User; NilUser stands for the nil pointer.  Username is the
\* sequence of its characters, every other field a string.
NilUser ==
    [ID |-> "", FullName |-> "", Username |-> <<>>, Password |-> "",
     Status |-> "", Role |-> "", ProfilePicture |-> ""]

\* Request bodies: a User decoded from the request, with no ID.
Body(fn, un, pw, st, ro) ==
    [ID |-> "", FullName |-> fn, Username |-> un, Password |-> pw,
     Status |-> st, Role |-> ro, ProfilePicture |-> ""]

ValidBodies ==
    { Body("Ann", <<"a">>, "password1", "Active", "Admin"),
      Body("Bob", <<"b">>, "password2", "Inactive", "Operator") }

InvalidBodies ==
    { Body("", <<"a">>, "password1", "Active", "Admin"),
      Body("Ann", <<"b", "1">>, "short", "Pending", "Guest"),
      Body("Ann", <<"a">>, "short", "Active", "Admin"),
      Body("Ann", <<"a">>, "password12345678", "Active", "Admin"),
      Body("Ann", <<"a">>, "password1", "Pending", "Admin"),
      Body("Ann", <<"a">>, "password1", "Active", "Guest") }

CreateBodies == ValidBodies \cup InvalidBodies

\* Partial bodies of an update: empty fields are left alone.
UpdateBodies ==
    { Body("Bob", <<>>, "password2", "", ""),
      Body("", <<>>, "", "Pending", "") }

AuthBodies ==
    { Body("", un, pw, "", "") :
        un \in {<<"a">>, <<"z">>}, pw \in {"password1", "wrongpass"} }

PlainPasswords ==
    {b.Password : b \in CreateBodies \cup UpdateBodies \cup AuthBodies} \ {""}

\* ------------------------------------------------------------------ bcrypt
\* bcrypt.GenerateFromPassword: the hash embeds its salt; it is a string
\* no caller supplied.
BcryptHash(pw, salt) == "$2a$10$" \o salt \o "$" \o pw

\* bcrypt.CompareHashAndPassword: nil exactly when hash was made from pw.
CompareHashAndPassword(hash, pw) == \E s \in Salts : hash = BcryptHash(pw, s)

\* regexp.MustCompile("^[a-zA-Z]+$").MatchString
usernameRegex(un) == Len(un) >= 1 /\ \A i \in 1..Len(un) : un[i] \in Letters

\* ------------------------------------------------------------ serialization
\* (*User).Serialize and models.DeserializeUser: the cache value is a
\* text form of the record, field by field.
Serialize(u) ==
    <<u.ID, u.FullName, u.Username, u.Password, u.Status, u.Role,
      u.ProfilePicture>>

DeserializeUser(s) ==
    IF Len(s) = 7
    THEN [err |-> "",
          user |-> [ID |-> s[1], FullName |-> s[2], Username |-> s[3],
                    Password |-> s[4], Status |-> s[5], Role |-> s[6],
                    ProfilePicture |-> s[7]]]
    ELSE [err |-> "deserialize error", user |-> NilUser]

\* A value in the cache that no Serialize produced.
Garbage == <<"{">>

\* ------------------------------------------------------------------- cache
CacheKey(userID) == userCachePrefix \o userID
CacheKeys == {CacheKey(id) : id \in UserIDs}

\* One Redis key.  val = <<>>: the key does not exist.  ttl and age are in
\* minutes; the key is dropped once age reaches ttl.  since, stale and
\* orig are history: minutes since the store last held this value, whether
\* a completed update changed the record after the entry was written, and
\* the user the entry was serialized from.
NoEntry ==
    [val |-> <<>>, ttl |-> 0, age |-> 0, since |-> 0, stale |-> FALSE,
     orig |-> NilUser]

GarbageEntry ==
    [val |-> Garbage, ttl |-> cacheExpiration, age |-> 0, since |-> 0,
     stale |-> FALSE, orig |-> NilUser]

SinceCap == cacheExpiration + TickMinutes

Min(a, b) == IF a < b THEN a ELSE b

VARIABLES
    store,      \* the users table: id -> User, NilUser where no row exists
    nextID,     \* the next auto-increment id
    cache,      \* Redis: key -> entry
    procs,      \* the request slots
    created     \* history: id -> the body the row was created from, and
                \* whether an update has written the row since

vars == <<store, nextID, cache, procs, created>>

\* A request slot.  pc names the call the request makes next; (ret, err,
\* token) is what a finished request hands its caller.  The other fields
\* are history of the running call: the repository and cache calls it
\* made, the outcome of its cache read and cache write, the entry its cache
\* read returned, what the repository returned, the record it handed to
\* repository.UpdateUser, whether the row was there and whether it had
\* changed since the call read it, and how the snapshot of a GetUserByID
\* relates to the store since it was read.
Idle ==
    [pc |-> "idle", op |-> "", userID |-> "", body |-> NilUser,
     user |-> NilUser, ret |-> NilUser, err |-> "", token |-> "",
     repoCalls |-> 0, cacheCalls |-> 0, cget |-> "", cset |-> "",
     seen |-> NoEntry, repoUser |-> NilUser, repoErr |-> "",
     fresh |-> FALSE, since |-> 0, handed |-> NilUser,
     rowThere |-> FALSE, raced |-> FALSE, issuerCalls |-> 0]

Init ==
    /\ store = [id \in UserIDs |-> NilUser]
    /\ nextID = 1
    /\ cache \in [CacheKeys -> {NoEntry, GarbageEntry}]
    /\ procs = [p \in Procs |-> Idle]
    /\ created = [id \in UserIDs |-> [body |-> NilUser, touched |-> FALSE]]

\* return ret, err
Done(p, ret, err) ==
    [procs[p] EXCEPT !.pc = "done", !.ret = ret, !.err = err]

\* The row of id changed from old to new: what that means for the
\* snapshots of it that running GetUserByID calls and the cache hold.
ProcsAfterWrite(id, old, new) ==
    [q \in Procs |->
        IF procs[q].pc = "get_set" /\ procs[q].userID = id
        THEN [procs[q] EXCEPT
                !.fresh = @ /\ new = old,
                !.since = IF new = procs[q].user THEN 0 ELSE @]
        ELSE procs[q]]

CacheAfterWrite(id, old, new, byUpdate) ==
    LET k == CacheKey(id)
        e == cache[k]
    IN  IF e.val = <<>> \/ e.val = Garbage THEN cache
        ELSE [cache EXCEPT ![k] =
                [e EXCEPT !.since = IF new = e.orig THEN 0 ELSE @,
                          !.stale = @ \/ (byUpdate /\ new # old)]]

\* ------------------------------------------------------------ GetUserByID
GetCall(p, userID) ==
    /\ procs[p].pc = "idle"
    /\ procs' = [procs EXCEPT ![p] =
         IF userID = ""
         THEN [Idle EXCEPT !.pc = "done", !.op = "GetUserByID",
                           !.err = "user ID must be provided"]
         ELSE [Idle EXCEPT !.pc = "get_cache", !.op = "GetUserByID",
                           !.userID = userID]]
    /\ UNCHANGED <<store, nextID, cache, created>>

\* GetCacheRead with a transport error of the cache read returned to the
\* caller.
GetCacheRead_surfaceErr(p, transport) ==
    LET e == cache[CacheKey(procs[p].userID)]
        d == DeserializeUser(e.val)
    IN  /\ procs[p].pc = "get_cache"
        /\ procs' = [procs EXCEPT ![p] =
             IF transport
             THEN [@ EXCEPT !.pc = "done", !.cacheCalls = @ + 1,
                            !.cget = "error", !.err = "cache error"]
             ELSE IF e.val = <<>>
             THEN [@ EXCEPT !.pc = "get_store", !.cacheCalls = @ + 1,
                            !.cget = "miss"]
             ELSE IF d.err # ""
             THEN [@ EXCEPT !.pc = "get_store", !.cacheCalls = @ + 1,
                            !.cget = "undeserializable", !.seen = e]
             ELSE [@ EXCEPT !.pc = "done", !.cacheCalls = @ + 1,
                            !.cget = "hit", !.seen = e,
                            !.ret = d.user, !.err = ""]]
        /\ UNCHANGED <<store, nextID, cache, created>>

\* GetCacheRead with a hit that still goes on to the store read.
GetCacheRead_fallthrough(p, transport) ==
    LET e == cache[CacheKey(procs[p].userID)]
        d == DeserializeUser(e.val)
    IN  /\ procs[p].pc = "get_cache"
        /\ procs' = [procs EXCEPT ![p] =
             IF transport
             THEN [@ EXCEPT !.pc = "get_store", !.cacheCalls = @ + 1,
                            !.cget = "error"]
             ELSE IF e.val = <<>>
             THEN [@ EXCEPT !.pc = "get_store", !.cacheCalls = @ + 1,
                            !.cget = "miss"]
             ELSE IF d.err # ""
             THEN [@ EXCEPT !.pc = "get_store", !.cacheCalls = @ + 1,
                            !.cget = "undeserializable", !.seen = e]
             ELSE [@ EXCEPT !.pc = "get_store", !.cacheCalls = @ + 1,
                            !.cget = "hit", !.seen = e]]
        /\ UNCHANGED <<store, nextID, cache, created>>

\* GetCacheRead with a hit that is checked against the store: the row the
\* store holds now is returned when there is one.
GetCacheRead_revalidate(p, transport) ==
    LET e == cache[CacheKey(procs[p].userID)]
        d == DeserializeUser(e.val)
        u == store[procs[p].userID]
    IN  /\ procs[p].pc = "get_cache"
        /\ procs' = [procs EXCEPT ![p] =
             IF transport
             THEN [@ EXCEPT !.pc = "get_store", !.cacheCalls = @ + 1,
                            !.cget = "error"]
             ELSE IF e.val = <<>>
             THEN [@ EXCEPT !.pc = "get_store", !.cacheCalls = @ + 1,
                            !.cget = "miss"]
             ELSE IF d.err # ""
             THEN [@ EXCEPT !.pc = "get_store", !.cacheCalls = @ + 1,
                            !.cget = "undeserializable", !.seen = e]
             ELSE [@ EXCEPT !.pc = "done", !.cacheCalls = @ + 1,
                            !.cget = "hit", !.seen = e,
                            !.ret = IF u # NilUser THEN u ELSE d.user,
                            !.err = ""]]
        /\ UNCHANGED <<store, nextID, cache, created>>

\* GetCacheRead that answers a hit only while the store still has the row:
\* the entry of a deleted user is answered as not found.
GetCacheRead_checkDeleted(p, transport) ==
    LET e == cache[CacheKey(procs[p].userID)]
        d == DeserializeUser(e.val)
    IN  /\ procs[p].pc = "get_cache"
        /\ procs' = [procs EXCEPT ![p] =
             IF transport
             THEN [@ EXCEPT !.pc = "get_store", !.cacheCalls = @ + 1,
                            !.cget = "error"]
             ELSE IF e.val = <<>>
             THEN [@ EXCEPT !.pc = "get_store", !.cacheCalls = @ + 1,
                            !.cget = "miss"]
             ELSE IF d.err # ""
             THEN [@ EXCEPT !.pc = "get_store", !.cacheCalls = @ + 1,
                            !.cget = "undeserializable", !.seen = e]
             ELSE [@ EXCEPT !.pc = "done", !.cacheCalls = @ + 1,
                            !.cget = "hit", !.seen = e,
                            !.ret = IF store[procs[p].userID] = NilUser
                                    THEN NilUser ELSE d.user,
                            !.err = ""]]
        /\ UNCHANGED <<store, nextID, cache, created>>

\* GetCacheRead that renews the time to live of the entry on every hit.
GetCacheRead_touch(p, transport) ==
    LET k == CacheKey(procs[p].userID)
        e == cache[k]
        d == DeserializeUser(e.val)
    IN  /\ procs[p].pc = "get_cache"
        /\ procs' = [procs EXCEPT ![p] =
             IF transport
             THEN [@ EXCEPT !.pc = "get_store", !.cacheCalls = @ + 1,
                            !.cget = "error"]
             ELSE IF e.val = <<>>
             THEN [@ EXCEPT !.pc = "get_store", !.cacheCalls = @ + 1,
                            !.cget = "miss"]
             ELSE IF d.err # ""
             THEN [@ EXCEPT !.pc = "get_store", !.cacheCalls = @ + 1,
                            !.cget = "undeserializable", !.seen = e]
             ELSE [@ EXCEPT !.pc = "done", !.cacheCalls = @ + 1,
                            !.cget = "hit", !.seen = e,
                            !.ret = d.user, !.err = ""]]
        /\ cache' = IF ~transport /\ e.val # <<>> /\ d.err = ""
                    THEN [cache EXCEPT ![k].age = 0]
                    ELSE cache
        /\ UNCHANGED <<store, nextID, created>>

\* initializers.RedisClient.Get(ctx, cacheKey).Result() and the branches
\* on its outcome.  transport: the call failed with an error other than
\* redis.Nil.
GetCacheRead(p, transport) ==
    LET e == cache[CacheKey(procs[p].userID)]
        d == DeserializeUser(e.val)
    IN  /\ procs[p].pc = "get_cache"
        /\ procs' = [procs EXCEPT ![p] =
             IF transport
             THEN [@ EXCEPT !.pc = "get_store", !.cacheCalls = @ + 1,
                            !.cget = "error"]
             ELSE IF e.val = <<>>
             THEN [@ EXCEPT !.pc = "get_store", !.cacheCalls = @ + 1,
                            !.cget = "miss"]
             ELSE IF d.err # ""
             THEN [@ EXCEPT !.pc = "get_store", !.cacheCalls = @ + 1,
                            !.cget = "undeserializable", !.seen = e]
             ELSE [@ EXCEPT !.pc = "done", !.cacheCalls = @ + 1,
                            !.cget = "hit", !.seen = e,
                            !.ret = d.user, !.err = ""]]
        /\ UNCHANGED <<store, nextID, cache, created>>

\* GetStoreRead with the password blanked in the snapshot it keeps.
GetStoreRead_scrub(p, dbErr) ==
    LET u == store[procs[p].userID]
    IN  /\ procs[p].pc = "get_store"
        /\ procs' = [procs EXCEPT ![p] =
             IF dbErr
             THEN [@ EXCEPT !.pc = "done", !.repoCalls = @ + 1,
                            !.repoErr = "db error", !.err = "db error"]
             ELSE IF u = NilUser
             THEN [@ EXCEPT !.pc = "done", !.repoCalls = @ + 1]
             ELSE [@ EXCEPT !.pc = "get_set", !.repoCalls = @ + 1,
                            !.repoUser = u,
                            !.user = [u EXCEPT !.Password = ""],
                            !.fresh = TRUE, !.since = 0]]
        /\ UNCHANGED <<store, nextID, cache, created>>

\* GetStoreRead that caches the absence of the user: a marker that is no
\* serialized user is set under the key when the store has no row.
GetStoreRead_negative(p, dbErr) ==
    LET u == store[procs[p].userID]
    IN  /\ procs[p].pc = "get_store"
        /\ procs' = [procs EXCEPT ![p] =
             IF dbErr
             THEN [@ EXCEPT !.pc = "done", !.repoCalls = @ + 1,
                            !.repoErr = "db error", !.err = "db error"]
             ELSE IF u = NilUser
             THEN [@ EXCEPT !.pc = "done", !.repoCalls = @ + 1,
                            !.cacheCalls = @ + 1, !.cset = "ok"]
             ELSE [@ EXCEPT !.pc = "get_set", !.repoCalls = @ + 1,
                            !.repoUser = u, !.user = u, !.fresh = TRUE,
                            !.since = 0]]
        /\ cache' = IF ~dbErr /\ u = NilUser
                    THEN [cache EXCEPT ![CacheKey(procs[p].userID)] =
                            GarbageEntry]
                    ELSE cache
        /\ UNCHANGED <<store, nextID, created>>

\* repository.GetUserByID(userID) and the branches on its outcome.
GetStoreRead(p, dbErr) ==
    LET u == store[procs[p].userID]
    IN  /\ procs[p].pc = "get_store"
        /\ procs' = [procs EXCEPT ![p] =
             IF dbErr
             THEN [@ EXCEPT !.pc = "done", !.repoCalls = @ + 1,
                            !.repoErr = "db error", !.err = "db error"]
             ELSE IF u = NilUser
             THEN [@ EXCEPT !.pc = "done", !.repoCalls = @ + 1]
             ELSE [@ EXCEPT !.pc = "get_set", !.repoCalls = @ + 1,
                            !.repoUser = u, !.user = u, !.fresh = TRUE,
                            !.since = 0]]
        /\ UNCHANGED <<store, nextID, cache, created>>

\* user.Serialize(), RedisClient.Set(ctx, cacheKey, serializedUser,
\* cacheExpiration) and return user, nil.
GetCacheWrite(p, setErr) ==
    LET me == procs[p]
    IN  /\ me.pc = "get_set"
        /\ cache' =
             IF setErr THEN cache
             ELSE [cache EXCEPT ![CacheKey(me.userID)] =
                     [val |-> Serialize(me.user), ttl |-> cacheExpiration,
                      age |-> 0, since |-> me.since, stale |-> FALSE,
                      orig |-> me.user]]
        /\ procs' = [procs EXCEPT ![p] =
             [@ EXCEPT !.pc = "done", !.ret = me.user, !.err = "",
                       !.cacheCalls = @ + 1,
                       !.cset = IF setErr THEN "error" ELSE "ok"]]
        /\ UNCHANGED <<store, nextID, created>>

\* ValidateCreate with no upper limit on the length of the password.
ValidateCreate_noUpper(body) ==
    IF body.FullName = "" \/ body.Username = <<>> \/ body.Password = ""
    THEN "all fields must be provided"
    ELSE IF ~usernameRegex(body.Username)
    THEN "username must contain only characters"
    ELSE IF Len(body.Password) < 8
    THEN "password must be between 8 and 15 characters"
    ELSE IF body.Status \notin Statuses
    THEN "invalid status value"
    ELSE IF body.Role \notin Roles
    THEN "invalid role value"
    ELSE ""

\* ------------------------------------------------------------- CreateUser
\* The validation of CreateUser: the message of the first rule that the
\* body violates, "" when it violates none.
ValidateCreate(body) ==
    IF body.FullName = "" \/ body.Username = <<>> \/ body.Password = ""
    THEN "all fields must be provided"
    ELSE IF ~usernameRegex(body.Username)
    THEN "username must contain only characters"
    ELSE IF Len(body.Password) < 8 \/ Len(body.Password) > 15
    THEN "password must be between 8 and 15 characters"
    ELSE IF body.Status \notin Statuses
    THEN "invalid status value"
    ELSE IF body.Role \notin Roles
    THEN "invalid role value"
    ELSE ""

CreateCall(p, body) ==
    /\ procs[p].pc = "idle"
    /\ ValidateCreate(body) # "" \/ nextID <= MaxUsers
    /\ procs' = [procs EXCEPT ![p] =
         IF ValidateCreate(body) # ""
         THEN [Idle EXCEPT !.pc = "done", !.op = "CreateUser",
                           !.body = body, !.err = ValidateCreate(body)]
         ELSE [Idle EXCEPT !.pc = "create_store", !.op = "CreateUser",
                           !.body = body]]
    /\ UNCHANGED <<store, nextID, cache, created>>

\* Some row other than id holds username: the store's unique index.
UsernameTaken(username, id) ==
    \E other \in UserIDs :
        other # id /\ store[other] # NilUser
                   /\ store[other].Username = username

\* CreateStore with every new user stored as Active, whatever the body
\* says.
CreateStore_active(p, salt, dbErr) ==
    LET me == procs[p]
        id == ToString(nextID)
        user == [ID |-> id, FullName |-> me.body.FullName,
                 Username |-> me.body.Username,
                 Password |-> BcryptHash(me.body.Password, salt),
                 Status |-> "Active", Role |-> me.body.Role,
                 ProfilePicture |-> ""]
    IN  /\ me.pc = "create_store"
        /\ dbErr \/ nextID <= MaxUsers
        /\ IF dbErr
           THEN /\ procs' = [procs EXCEPT ![p] =
                     [Done(p, NilUser, "db error") EXCEPT !.repoCalls = @ + 1]]
                /\ UNCHANGED <<store, nextID, cache, created>>
           ELSE IF UsernameTaken(me.body.Username, id)
           THEN /\ procs' = [procs EXCEPT ![p] =
                     [Done(p, NilUser, "duplicate entry") EXCEPT
                         !.repoCalls = @ + 1]]
                /\ UNCHANGED <<store, nextID, cache, created>>
           ELSE /\ store' = [store EXCEPT ![id] = user]
                /\ nextID' = nextID + 1
                /\ procs' = [procs EXCEPT ![p] =
                     [Done(p, user, "") EXCEPT !.repoCalls = @ + 1]]
                /\ created' = [created EXCEPT ![id] =
                     [body |-> me.body, touched |-> FALSE]]
                /\ UNCHANGED cache

\* bcrypt.GenerateFromPassword, the new User and repository.CreateUser,
\* which assigns the id.
CreateStore(p, salt, dbErr) ==
    LET me == procs[p]
        id == ToString(nextID)
        user == [ID |-> id, FullName |-> me.body.FullName,
                 Username |-> me.body.Username,
                 Password |-> BcryptHash(me.body.Password, salt),
                 Status |-> me.body.Status, Role |-> me.body.Role,
                 ProfilePicture |-> ""]
    IN  /\ me.pc = "create_store"
        /\ dbErr \/ nextID <= MaxUsers
        /\ IF dbErr
           THEN /\ procs' = [procs EXCEPT ![p] =
                     [Done(p, NilUser, "db error") EXCEPT !.repoCalls = @ + 1]]
                /\ UNCHANGED <<store, nextID, cache, created>>
           ELSE IF UsernameTaken(me.body.Username, id)
           THEN /\ procs' = [procs EXCEPT ![p] =
                     [Done(p, NilUser, "duplicate entry") EXCEPT
                         !.repoCalls = @ + 1]]
                /\ UNCHANGED <<store, nextID, cache, created>>
           ELSE /\ store' = [store EXCEPT ![id] = user]
                /\ nextID' = nextID + 1
                /\ procs' = [procs EXCEPT ![p] =
                     [Done(p, user, "") EXCEPT !.repoCalls = @ + 1]]
                /\ created' = [created EXCEPT ![id] =
                     [body |-> me.body, touched |-> FALSE]]
                /\ UNCHANGED cache

\* --------------------------------------------------------- UpdateUserByID
UpdCall(p, userID, body) ==
    /\ procs[p].pc = "idle"
    /\ procs' = [procs EXCEPT ![p] =
         IF userID = ""
         THEN [Idle EXCEPT !.pc = "done", !.op = "UpdateUserByID",
                           !.body = body, !.err = "user ID must be provided"]
         ELSE [Idle EXCEPT !.pc = "upd_read", !.op = "UpdateUserByID",
                           !.userID = userID, !.body = body]]
    /\ UNCHANGED <<store, nextID, cache, created>>

\* UpdStoreRead that takes the current user from the cache when the key
\* holds one, as a call of GetUserByID would.
UpdStoreRead_cached(p, dbErr) ==
    LET e == cache[CacheKey(procs[p].userID)]
        d == DeserializeUser(e.val)
        u == IF e.val # <<>> /\ d.err = "" THEN d.user
             ELSE store[procs[p].userID]
    IN  /\ procs[p].pc = "upd_read"
        /\ procs' = [procs EXCEPT ![p] =
             IF dbErr
             THEN [@ EXCEPT !.pc = "done", !.repoCalls = @ + 1,
                            !.err = "db error"]
             ELSE IF u = NilUser
             THEN [@ EXCEPT !.pc = "done", !.repoCalls = @ + 1]
             ELSE [@ EXCEPT !.pc = "upd_write", !.repoCalls = @ + 1,
                            !.user = u]]
        /\ UNCHANGED <<store, nextID, cache, created>>

\* user, err := repository.GetUserByID(userID) and the branches on it.
UpdStoreRead(p, dbErr) ==
    LET u == store[procs[p].userID]
    IN  /\ procs[p].pc = "upd_read"
        /\ procs' = [procs EXCEPT ![p] =
             IF dbErr
             THEN [@ EXCEPT !.pc = "done", !.repoCalls = @ + 1,
                            !.err = "db error"]
             ELSE IF u = NilUser
             THEN [@ EXCEPT !.pc = "done", !.repoCalls = @ + 1]
             ELSE [@ EXCEPT !.pc = "upd_write", !.repoCalls = @ + 1,
                            !.user = u]]
        /\ UNCHANGED <<store, nextID, cache, created>>

\* ApplyBody with the password of the body stored as it came.
ApplyBody_plain(user, body, salt) ==
    [ID |-> user.ID,
     FullName |-> IF body.FullName # "" THEN body.FullName
                  ELSE user.FullName,
     Username |-> IF body.Username # <<>> THEN body.Username
                  ELSE user.Username,
     Password |-> IF body.Password # "" THEN body.Password
                  ELSE user.Password,
     Status |-> IF body.Status # "" THEN body.Status ELSE user.Status,
     Role |-> IF body.Role # "" THEN body.Role ELSE user.Role,
     ProfilePicture |-> user.ProfilePicture]

\* The fields of body that are not empty laid over user, the password
\* hashed.
ApplyBody(user, body, salt) ==
    [ID |-> user.ID,
     FullName |-> IF body.FullName # "" THEN body.FullName
                  ELSE user.FullName,
     Username |-> IF body.Username # <<>> THEN body.Username
                  ELSE user.Username,
     Password |-> IF body.Password # ""
                  THEN BcryptHash(body.Password, salt)
                  ELSE user.Password,
     Status |-> IF body.Status # "" THEN body.Status ELSE user.Status,
     Role |-> IF body.Role # "" THEN body.Role ELSE user.Role,
     ProfilePicture |-> user.ProfilePicture]

\* repository.UpdateUser(user): every column of the row of user.ID is
\* set from user; no row, no change.
UpdateUser(user) ==
    IF store[user.ID] = NilUser THEN store
    ELSE [store EXCEPT ![user.ID] = user]

\* UpdStoreWrite that also deletes the cache key of the user.
UpdStoreWrite_invalidate(p, salt, dbErr) ==
    LET me == procs[p]
        id == me.userID
        user == ApplyBody(me.user, me.body, salt)
    IN  /\ me.pc = "upd_write"
        /\ IF dbErr \/ UsernameTaken(user.Username, id)
           THEN /\ procs' = [procs EXCEPT ![p] =
                     [Done(p, NilUser,
                           IF dbErr THEN "db error" ELSE "duplicate entry")
                        EXCEPT !.repoCalls = @ + 1, !.handed = user]]
                /\ UNCHANGED <<store, nextID, cache, created>>
           ELSE /\ store' = UpdateUser(user)
                /\ cache' = [cache EXCEPT ![CacheKey(id)] = NoEntry]
                /\ procs' = [ProcsAfterWrite(id, store[id], store'[id])
                               EXCEPT ![p] =
                     [Done(p, user, "") EXCEPT
                         !.repoCalls = @ + 1, !.handed = user,
                         !.rowThere = store[id] # NilUser,
                         !.raced = store[id] # NilUser
                                   /\ store[id] # me.user]]
                /\ created' = [created EXCEPT
                     ![id].touched = @ \/ store[id] # NilUser]
                /\ UNCHANGED nextID

\* UpdStoreWrite with an optimistic check: the write is refused when the
\* row is no longer the one the call read.
UpdStoreWrite_optimistic(p, salt, dbErr) ==
    LET me == procs[p]
        id == me.userID
        user == ApplyBody(me.user, me.body, salt)
    IN  /\ me.pc = "upd_write"
        /\ IF dbErr \/ UsernameTaken(user.Username, id)
           THEN /\ procs' = [procs EXCEPT ![p] =
                     [Done(p, NilUser,
                           IF dbErr THEN "db error" ELSE "duplicate entry")
                        EXCEPT !.repoCalls = @ + 1, !.handed = user]]
                /\ UNCHANGED <<store, nextID, cache, created>>
           ELSE IF store[id] # me.user
           THEN /\ procs' = [procs EXCEPT ![p] =
                     [Done(p, NilUser, "conflict")
                        EXCEPT !.repoCalls = @ + 1, !.handed = user]]
                /\ UNCHANGED <<store, nextID, cache, created>>
           ELSE /\ store' = UpdateUser(user)
                /\ cache' = CacheAfterWrite(id, store[id], store'[id], TRUE)
                /\ procs' = [ProcsAfterWrite(id, store[id], store'[id])
                               EXCEPT ![p] =
                     [Done(p, user, "") EXCEPT
                         !.repoCalls = @ + 1, !.handed = user,
                         !.rowThere = store[id] # NilUser,
                         !.raced = store[id] # NilUser
                                   /\ store[id] # me.user]]
                /\ created' = [created EXCEPT
                     ![id].touched = @ \/ store[id] # NilUser]
                /\ UNCHANGED nextID

\* The field updates, repository.UpdateUser(user) and return user, nil.
UpdStoreWrite(p, salt, dbErr) ==
    LET me == procs[p]
        id == me.userID
        user == ApplyBody(me.user, me.body, salt)
    IN  /\ me.pc = "upd_write"
        /\ IF dbErr \/ UsernameTaken(user.Username, id)
           THEN /\ procs' = [procs EXCEPT ![p] =
                     [Done(p, NilUser,
                           IF dbErr THEN "db error" ELSE "duplicate entry")
                        EXCEPT !.repoCalls = @ + 1, !.handed = user]]
                /\ UNCHANGED <<store, nextID, cache, created>>
           ELSE /\ store' = UpdateUser(user)
                /\ cache' = CacheAfterWrite(id, store[id], store'[id], TRUE)
                /\ procs' = [ProcsAfterWrite(id, store[id], store'[id])
                               EXCEPT ![p] =
                     [Done(p, user, "") EXCEPT
                         !.repoCalls = @ + 1, !.handed = user,
                         !.rowThere = store[id] # NilUser,
                         !.raced = store[id] # NilUser
                                   /\ store[id] # me.user]]
                /\ created' = [created EXCEPT
                     ![id].touched = @ \/ store[id] # NilUser]
                /\ UNCHANGED nextID

\* --------------------------------------------------------- DeleteUserByID
DelCall(p, userID) ==
    /\ procs[p].pc = "idle"
    /\ procs' = [procs EXCEPT ![p] =
         IF userID = ""
         THEN [Idle EXCEPT !.pc = "done", !.op = "DeleteUserByID",
                           !.err = "user ID must be provided"]
         ELSE [Idle EXCEPT !.pc = "del_read", !.op = "DeleteUserByID",
                           !.userID = userID]]
    /\ UNCHANGED <<store, nextID, cache, created>>

\* user, err := repository.GetUserByID(userID) and the branches on it.
DelStoreRead(p, dbErr) ==
    LET u == store[procs[p].userID]
    IN  /\ procs[p].pc = "del_read"
        /\ procs' = [procs EXCEPT ![p] =
             IF dbErr
             THEN [@ EXCEPT !.pc = "done", !.repoCalls = @ + 1,
                            !.err = "db error"]
             ELSE IF u = NilUser
             THEN [@ EXCEPT !.pc = "done", !.repoCalls = @ + 1]
             ELSE [@ EXCEPT !.pc = "del_delete", !.repoCalls = @ + 1,
                            !.user = u]]
        /\ UNCHANGED <<store, nextID, cache, created>>

\* repository.DeleteUser(user) and return nil.
DelStoreDelete(p, dbErr) ==
    LET me == procs[p]
        id == me.userID
    IN  /\ me.pc = "del_delete"
        /\ IF dbErr
           THEN /\ procs' = [procs EXCEPT ![p] =
                     [Done(p, NilUser, "db error") EXCEPT !.repoCalls = @ + 1]]
                /\ UNCHANGED <<store, nextID, cache, created>>
           ELSE /\ store' = [store EXCEPT ![id] = NilUser]
                /\ cache' = CacheAfterWrite(id, store[id], NilUser, FALSE)
                /\ procs' = [ProcsAfterWrite(id, store[id], NilUser)
                               EXCEPT ![p] =
                     [Done(p, NilUser, "") EXCEPT !.repoCalls = @ + 1]]
                /\ UNCHANGED <<nextID, created>>

\* ------------------------------------------------------- AuthenticateUser
AuthCall(p, body) ==
    /\ procs[p].pc = "idle"
    /\ procs' = [procs EXCEPT ![p] =
         [Idle EXCEPT !.pc = "auth_lookup", !.op = "AuthenticateUser",
                      !.body = body]]
    /\ UNCHANGED <<store, nextID, cache, created>>

\* repository.GetUserByUsername: the row with that username, if any.
GetUserByUsername(username) ==
    IF \E id \in UserIDs : store[id] # NilUser
                           /\ store[id].Username = username
    THEN CHOOSE u \in {store[id] : id \in UserIDs} :
            u # NilUser /\ u.Username = username
    ELSE NilUser

\* utils.GenerateJWTToken(user, secret): a token that binds the user.
GenerateJWTToken(user) == "jwt." \o user.ID \o "." \o user.Role

\* AuthLookup that issues the token for any user it finds, the password
\* not compared.
AuthLookup_noCompare(p, dbErr, signErr) ==
    LET me == procs[p]
        user == GetUserByUsername(me.body.Username)
    IN  /\ me.pc = "auth_lookup"
        /\ procs' = [procs EXCEPT ![p] =
             IF dbErr
             THEN [Done(p, NilUser, "db error") EXCEPT !.repoCalls = @ + 1]
             ELSE IF user = NilUser
             THEN [Done(p, NilUser, "user not found") EXCEPT
                      !.repoCalls = @ + 1]
             ELSE IF signErr
             THEN [Done(p, NilUser, "failed to generate JWT token") EXCEPT
                      !.repoCalls = @ + 1, !.user = user,
                      !.issuerCalls = @ + 1]
             ELSE [Done(p, NilUser, "") EXCEPT
                      !.repoCalls = @ + 1, !.user = user,
                      !.issuerCalls = @ + 1,
                      !.token = GenerateJWTToken(user)]]
        /\ UNCHANGED <<store, nextID, cache, created>>

\* The lookup, the password comparison and the token.  signErr: signing
\* failed.
AuthLookup(p, dbErr, signErr) ==
    LET me == procs[p]
        user == GetUserByUsername(me.body.Username)
    IN  /\ me.pc = "auth_lookup"
        /\ procs' = [procs EXCEPT ![p] =
             IF dbErr
             THEN [Done(p, NilUser, "db error") EXCEPT !.repoCalls = @ + 1]
             ELSE IF user = NilUser
             THEN [Done(p, NilUser, "user not found") EXCEPT
                      !.repoCalls = @ + 1]
             ELSE IF ~CompareHashAndPassword(user.Password, me.body.Password)
             THEN [Done(p, NilUser, "incorrect password") EXCEPT
                      !.repoCalls = @ + 1, !.user = user]
             ELSE IF signErr
             THEN [Done(p, NilUser, "failed to generate JWT token") EXCEPT
                      !.repoCalls = @ + 1, !.user = user,
                      !.issuerCalls = @ + 1]
             ELSE [Done(p, NilUser, "") EXCEPT
                      !.repoCalls = @ + 1, !.user = user,
                      !.issuerCalls = @ + 1,
                      !.token = GenerateJWTToken(user)]]
        /\ UNCHANGED <<store, nextID, cache, created>>

\* ------------------------------------------------------------------ return
\* The handler has answered; the slot takes the next request.
Return(p) ==
    /\ procs[p].pc = "done"
    /\ procs' = [procs EXCEPT ![p] = Idle]
    /\ UNCHANGED <<store, nextID, cache, created>>

\* ------------------------------------------------------------------- clock
\* TickMinutes pass: Redis drops the keys whose time to live has run out.
Tick ==
    /\ cache' = [k \in CacheKeys |->
         LET e == cache[k]
         IN  IF e.val = <<>> THEN e
             ELSE IF e.age + TickMinutes >= e.ttl THEN NoEntry
             ELSE [e EXCEPT
                     !.age = @ + TickMinutes,
                     !.since = IF e.val # Garbage
                                  /\ store[e.orig.ID] = e.orig THEN 0
                               ELSE Min(SinceCap, @ + TickMinutes)]]
    /\ procs' = [q \in Procs |->
         IF procs[q].pc = "get_set"
         THEN [procs[q] EXCEPT
                 !.since = IF store[procs[q].userID] = procs[q].user THEN 0
                           ELSE Min(SinceCap, @ + TickMinutes)]
         ELSE procs[q]]
    /\ UNCHANGED <<store, nextID, created>>

Next ==
    \/ \E p \in Procs, userID \in UserIDs \cup {""} : GetCall(p, userID)
    \/ \E p \in Procs, transport \in BOOLEAN : GetCacheRead(p, transport)
    \/ \E p \in Procs, dbErr \in BOOLEAN : GetStoreRead(p, dbErr)
    \/ \E p \in Procs, setErr \in BOOLEAN : GetCacheWrite(p, setErr)
    \/ \E p \in Procs, body \in CreateBodies : CreateCall(p, body)
    \/ \E p \in Procs, salt \in Salts, dbErr \in BOOLEAN :
            CreateStore(p, salt, dbErr)
    \/ \E p \in Procs, userID \in UserIDs \cup {""}, body \in UpdateBodies :
            UpdCall(p, userID, body)
    \/ \E p \in Procs, dbErr \in BOOLEAN : UpdStoreRead(p, dbErr)
    \/ \E p \in Procs, salt \in Salts, dbErr \in BOOLEAN :
            UpdStoreWrite(p, salt, dbErr)
    \/ \E p \in Procs, userID \in UserIDs \cup {""} : DelCall(p, userID)
    \/ \E p \in Procs, dbErr \in BOOLEAN : DelStoreRead(p, dbErr)
    \/ \E p \in Procs, dbErr \in BOOLEAN : DelStoreDelete(p, dbErr)
    \/ \E p \in Procs, body \in AuthBodies : AuthCall(p, body)
    \/ \E p \in Procs, dbErr \in BOOLEAN, signErr \in BOOLEAN :
            AuthLookup(p, dbErr, signErr)
    \/ \E p \in Procs : Return(p)
    \/ Tick

Spec == Init /\ [][Next]_vars

\* ================================================================ claims
IsGet(p) == procs[p].op = "GetUserByID" /\ procs[p].userID # ""
GetDone(p) == IsGet(p) /\ procs[p].pc = "done"
\* The cache read of p returned a live entry that deserializes.
SawLive(p) ==
    /\ procs[p].cget # "error"
    /\ procs[p].seen.val # <<>>
    /\ procs[p].seen.val # Garbage

\* C1: a GetUserByID whose cache read was a transport error, a miss or an
\* undeserializable hit returns what repository.GetUserByID returned, user
\* and error alike, whatever the cache write did.
C1_CacheNeverFailsRead ==
    \A p \in Procs :
        GetDone(p) /\ procs[p].cget \in {"error", "miss", "undeserializable"}
        => /\ procs[p].repoCalls = 1
           /\ procs[p].ret = procs[p].repoUser
           /\ procs[p].err = procs[p].repoErr
           /\ procs[p].err \in {"", "db error"}

\* C1 witness: the cache failed on the read and on the write, and the call
\* returned the row of the store with no error.
C1_Witness ==
    \E p \in Procs :
        /\ GetDone(p)
        /\ procs[p].cget = "error" /\ procs[p].cset = "error"
        /\ procs[p].err = ""
        /\ procs[p].ret # NilUser
        /\ procs[p].ret = store[procs[p].userID]

\* C2: a GetUserByID whose cache read reaches a live entry made by an
\* earlier GetUserByID ends there: it returns the user that entry was made
\* from, with no error and without a call to the repository.
C2_HitReturnsCachedNoStoreCall ==
    \A p \in Procs :
        IsGet(p) /\ procs[p].cacheCalls >= 1 /\ SawLive(p)
        => /\ procs[p].pc = "done"
           /\ procs[p].cget = "hit"
           /\ procs[p].ret = procs[p].seen.orig
           /\ procs[p].err = ""
           /\ procs[p].repoCalls = 0
           /\ procs[p].seen.age < procs[p].seen.ttl

\* C2 witness: a hit on an entry that has been in the cache for a while.
C2_Witness ==
    \E p \in Procs :
        /\ GetDone(p) /\ procs[p].cget = "hit"
        /\ procs[p].seen.age > 0
        /\ procs[p].ret = procs[p].seen.orig
        /\ procs[p].repoCalls = 0

\* C3: a GetUserByID that reads an entry which a completed update has
\* left behind returns the user as it was before the update; the witness
\* is the execution in which that differs from the row of the store.
C3_StaleHitReturnsPreUpdate ==
    \A p \in Procs :
        GetDone(p) /\ SawLive(p) /\ procs[p].seen.stale
        => /\ procs[p].ret = DeserializeUser(procs[p].seen.val).user
           /\ procs[p].ret.ID = procs[p].userID
           /\ procs[p].err = ""

\* C3 witness: cached, then updated, then read before the entry expired:
\* the read returned the pre-update user, and the store holds another.
C3_Witness ==
    \E p \in Procs :
        /\ GetDone(p) /\ procs[p].cget = "hit" /\ procs[p].seen.stale
        /\ store[procs[p].userID] # NilUser
        /\ procs[p].ret # store[procs[p].userID]
        /\ procs[p].ret = procs[p].seen.orig

\* What Redis holds: per key the value and the time it has left.
RedisView(c) == [k \in CacheKeys |-> <<c[k].val, c[k].ttl - c[k].age>>]
PcOf(ps) == [p \in Procs |-> ps[p].pc]

\* C4: UpdateUserByID and DeleteUserByID make no cache call, and no step of
\* theirs changes what Redis holds; what Redis holds changes only by the
\* passing of time or by the cache write of a GetUserByID that missed and
\* read the user from the store.
C4_WritePathsLeaveCache ==
    /\ [](\A p \in Procs :
            procs[p].op \in {"UpdateUserByID", "DeleteUserByID"}
            => procs[p].cacheCalls = 0)
    /\ [][RedisView(cache') # RedisView(cache)
          => \/ PcOf(procs') = PcOf(procs)
             \/ \E p \in Procs :
                  /\ procs[p].pc = "get_set" /\ procs'[p].pc = "done"
                  /\ procs[p].op = "GetUserByID"
                  /\ procs[p].cget # "hit"
                  /\ procs[p].repoUser # NilUser
                  /\ procs[p].repoUser = procs[p].user
                  /\ \A k \in CacheKeys :
                       k # CacheKey(procs[p].userID)
                       => cache'[k] = cache[k]]_vars

\* C4 witness: an update went through while the entry of its user stayed
\* in the cache as it was.
C4_Witness ==
    \E p \in Procs :
        /\ procs[p].pc = "done" /\ procs[p].op = "UpdateUserByID"
        /\ procs[p].err = "" /\ procs[p].rowThere
        /\ cache[CacheKey(procs[p].userID)].val # <<>>
        /\ cache[CacheKey(procs[p].userID)].val # Garbage
        /\ cache[CacheKey(procs[p].userID)].orig # store[procs[p].userID]

\* C5 as stated: a value returned from the cache is a record the store
\* held at some instant no more than 10 minutes before the return.
C5_StalenessBoundedByTTL ==
    \A p \in Procs :
        GetDone(p) /\ procs[p].cget = "hit" => procs[p].seen.since <= 10

\* C5 amended: a value returned from the cache was written to the cache
\* less than 10 minutes before the return, by a GetUserByID that had read
\* it from the store; how long before the write it was read is not bounded.
C5_HitWithinTTLOfCacheWrite ==
    \A p \in Procs :
        GetDone(p) /\ procs[p].cget = "hit"
        => /\ procs[p].seen.age < 10
           /\ procs[p].ret = procs[p].seen.orig

\* C5 witness: a hit on an entry whose record the store has not held for
\* longer than that.
C5_Witness ==
    \E p \in Procs :
        /\ GetDone(p) /\ procs[p].cget = "hit"
        /\ procs[p].seen.since > 10
        /\ procs[p].seen.age < 10

\* C6 as stated: the calls that missed and are about to write the entry of
\* one id all write the same snapshot.
C6_ConcurrentMissesEquivalent ==
    \A p, q \in Procs :
        /\ IsGet(p) /\ procs[p].pc = "get_set"
        /\ IsGet(q) /\ procs[q].pc = "get_set"
        /\ procs[p].userID = procs[q].userID
        => Serialize(procs[p].user) = Serialize(procs[q].user)

\* C6 amended: each such call writes the snapshot its own store read
\* returned; the calls whose store read no store write of that id has
\* followed hold the row the store holds now, so those write the same
\* snapshot.
C6_FreshMissesEquivalent ==
    \A p, q \in Procs :
        /\ IsGet(p) /\ procs[p].pc = "get_set" /\ procs[p].fresh
        /\ IsGet(q) /\ procs[q].pc = "get_set" /\ procs[q].fresh
        /\ procs[p].userID = procs[q].userID
        => /\ Serialize(procs[p].user) = Serialize(procs[q].user)
           /\ procs[p].user = store[procs[p].userID]

\* C6 witness: two calls that missed hold the same snapshot of the row.
C6_Witness ==
    \E p, q \in Procs :
        /\ p # q
        /\ IsGet(p) /\ procs[p].pc = "get_set" /\ procs[p].fresh
        /\ IsGet(q) /\ procs[q].pc = "get_set" /\ procs[q].fresh
        /\ procs[p].userID = procs[q].userID
        /\ procs[p].user = procs[q].user

\* C7: an UpdateUserByID store write is never refused for a conflict; when
\* it succeeds on a row that is there, the store holds the record that this
\* call handed to repository.UpdateUser: the row this call read earlier,
\* with the fields that are not empty in its body laid over it.
C7_LastWriteWins ==
    [][\A p \in Procs :
         procs[p].pc = "upd_write" /\ procs'[p].pc = "done"
         => LET me == procs[p]
                h == procs'[p].handed
            IN  /\ procs'[p].err \in {"", "db error", "duplicate entry"}
                /\ h.ID = me.user.ID
                /\ h.FullName = IF me.body.FullName # ""
                                THEN me.body.FullName ELSE me.user.FullName
                /\ h.Username = IF me.body.Username # <<>>
                                THEN me.body.Username ELSE me.user.Username
                /\ IF me.body.Password # ""
                   THEN CompareHashAndPassword(h.Password, me.body.Password)
                   ELSE h.Password = me.user.Password
                /\ h.Status = IF me.body.Status # ""
                              THEN me.body.Status ELSE me.user.Status
                /\ h.Role = IF me.body.Role # ""
                            THEN me.body.Role ELSE me.user.Role
                /\ procs'[p].err = ""
                   => /\ procs'[p].ret = h
                      /\ store[me.userID] # NilUser => store'[me.userID] = h
      ]_vars

\* C7 witness: two updates of one id overlapped and both succeeded; the
\* one that wrote last wrote over a row it had not read, and the store
\* holds its record.
C7_Witness ==
    \E p, q \in Procs :
        /\ p # q
        /\ procs[p].pc = "done" /\ procs[p].op = "UpdateUserByID"
        /\ procs[q].pc = "done" /\ procs[q].op = "UpdateUserByID"
        /\ procs[p].userID = procs[q].userID
        /\ procs[p].err = "" /\ procs[q].err = ""
        /\ procs[p].rowThere /\ procs[q].rowThere
        /\ procs[p].raced
        /\ procs[p].user = procs[q].user
        /\ store[procs[p].userID] = procs[p].handed
        /\ procs[q].handed # procs[p].handed

\* C8 as stated: every row of the store has a status in {Active, Inactive}
\* and a role in {Admin, Operator}.
C8_EnumInvariant ==
    \A id \in UserIDs :
        store[id] # NilUser
        => store[id].Status \in Statuses /\ store[id].Role \in Roles

\* C9 as stated: an AuthenticateUser that found no user and one that found
\* the user and a wrong password return the same error.
C9_NoUsernameEnumeration ==
    \A p, q \in Procs :
        /\ procs[p].pc = "done" /\ procs[p].op = "AuthenticateUser"
        /\ procs[q].pc = "done" /\ procs[q].op = "AuthenticateUser"
        /\ procs[p].repoCalls = 1 /\ procs[p].issuerCalls = 0
        /\ procs[q].repoCalls = 1 /\ procs[q].issuerCalls = 0
        /\ procs[p].err # "db error" /\ procs[q].err # "db error"
        => procs[p].err = procs[q].err /\ procs[p].token = procs[q].token

\* A bcrypt hash of one of the passwords callers supply.
IsHash(pw) == \E plain \in PlainPasswords : CompareHashAndPassword(pw, plain)

\* C10: the password of every row of the store, of every user in a cache
\* entry and of every user returned by CreateUser, UpdateUserByID or
\* GetUserByID is a hash made from a plaintext, never a plaintext a caller
\* supplied.
C10_PlaintextNeverPersists ==
    /\ \A id \in UserIDs :
         store[id] # NilUser
         => IsHash(store[id].Password)
            /\ store[id].Password \notin PlainPasswords
    /\ \A k \in CacheKeys :
         cache[k].val # <<>> /\ cache[k].val # Garbage
         => IsHash(DeserializeUser(cache[k].val).user.Password)
            /\ cache[k].val[4] \notin PlainPasswords
    /\ \A p \in Procs :
         procs[p].pc = "done" /\ procs[p].ret # NilUser
         => IsHash(procs[p].ret.Password)
            /\ procs[p].ret.Password \notin PlainPasswords

\* C10 witness: a password set by an update is in the store as a hash, and
\* a GetUserByID has cached and returned that row.
C10_Witness ==
    \E p \in Procs :
        /\ GetDone(p) /\ procs[p].cset = "ok"
        /\ procs[p].ret = store[procs[p].userID]
        /\ cache[CacheKey(procs[p].userID)].val = Serialize(procs[p].ret)
        /\ CompareHashAndPassword(procs[p].ret.Password, "password2")
        /\ procs[p].ret.FullName = "Bob" /\ procs[p].ret.Username = <<"a">>

\* ------------------------------------------------------------------- C11
\* The rules of CreateUser in the order the claim lists them, each with
\* the message of its error.
CreateRules(body) ==
    << <<body.FullName = "" \/ body.Username = <<>> \/ body.Password = "",
         "all fields must be provided">>,
       <<\E i \in 1..Len(body.Username) :
            body.Username[i] \notin {"a", "b", "z"},
         "username must contain only characters">>,
       <<Len(body.Password) <= 7 \/ Len(body.Password) >= 16,
         "password must be between 8 and 15 characters">>,
       <<body.Status \notin {"Active", "Inactive"}, "invalid status value">>,
       <<body.Role \notin {"Admin", "Operator"}, "invalid role value">> >>

Violated(body) == {i \in 1..Len(CreateRules(body)) : CreateRules(body)[i][1]}

FirstViolated(body) ==
    CreateRules(body)[CHOOSE i \in Violated(body) :
                         \A j \in Violated(body) : i <= j][2]

MatchesInput(user, id, body) ==
    /\ user.ID = id
    /\ user.FullName = body.FullName
    /\ user.Username = body.Username
    /\ user.Status = body.Status
    /\ user.Role = body.Role
    /\ user.Password # body.Password
    /\ CompareHashAndPassword(user.Password, body.Password)

\* C12: a CreateUser that succeeded returned the user it stored, and that
\* user carries the id the store assigned and the fullName, username,
\* status and role of the body, with a password that is not the plaintext
\* and verifies against it; a GetUserByID of that id that returns a user
\* while no update has written the row returns a user with those fields,
\* whether it came from the store or from the cache.
C12_CreateThenRead ==
    \A p \in Procs :
        /\ procs[p].pc = "done" /\ procs[p].op = "CreateUser"
             /\ procs[p].err = ""
           => /\ procs[p].body \in ValidBodies
              /\ procs[p].ret # NilUser
              /\ created[procs[p].ret.ID].body = procs[p].body
              /\ MatchesInput(procs[p].ret, procs[p].ret.ID, procs[p].body)
        /\ GetDone(p) /\ procs[p].ret # NilUser
             /\ ~created[procs[p].userID].touched
           => /\ procs[p].err = ""
              /\ created[procs[p].userID].body \in ValidBodies
              /\ MatchesInput(procs[p].ret, procs[p].userID,
                              created[procs[p].userID].body)

\* A user created Inactive / Operator was read back from the store by one
\* request and from the cache by another, no update in between.
C12_Witness ==
    \E p, q \in Procs :
        /\ GetDone(p) /\ GetDone(q)
        /\ procs[p].cget = "miss" /\ procs[q].cget = "hit"
        /\ procs[p].ret # NilUser /\ procs[q].ret = procs[p].ret
        /\ procs[p].ret.Status = "Inactive"
        /\ ~created[procs[p].userID].touched

\* ------------------------------------------------------------------- C13
\* What the caller of a finished request holds.
Outcome(p) == <<procs[p].ret, procs[p].err>>

ByID(p) ==
    /\ procs[p].pc = "done" /\ procs[p].userID # ""
    /\ procs[p].op \in {"GetUserByID", "UpdateUserByID", "DeleteUserByID"}

\* The store read of the request found no row and raised no error.
NotFoundRun(p) ==
    /\ ByID(p) /\ procs[p].repoCalls = 1 /\ procs[p].err = ""
    /\ procs[p].op = "GetUserByID" => procs[p].repoUser = NilUser

\* The request found the user and did what it was asked to.
SuccessRun(p) ==
    /\ ByID(p) /\ procs[p].err = ""
    /\ IF procs[p].op = "GetUserByID"
       THEN procs[p].cget = "hit" \/ procs[p].repoUser # NilUser
       ELSE procs[p].repoCalls = 2

ErrorRun(p) == ByID(p) /\ procs[p].err # ""

\* C13: for GetUserByID, UpdateUserByID and DeleteUserByID alike, what the
\* caller holds after a request that found no user differs from what it
\* holds after a request of the same operation that succeeded on a user,
\* and from what it holds after one that failed with an error.
C13_NotFoundDistinct ==
    \A p, q \in Procs :
        NotFoundRun(p) /\ procs[q].op = procs[p].op
          /\ (SuccessRun(q) \/ ErrorRun(q))
        => Outcome(p) # Outcome(q)

\* ------------------------------------------------------------------- C14
\* C14: when the store read of a GetUserByID finds no user or fails, the
\* call returns at that step without a cache write: the step leaves every
\* cache entry as it was, and the only cache call the request has made is
\* its read.
C14_NoNegativeCaching ==
    [][\A p \in Procs :
         procs[p].pc = "get_store" /\ procs'[p].pc # "get_store"
           /\ procs'[p].repoUser = NilUser
         => /\ procs'[p].pc = "done"
            /\ procs'[p].ret = NilUser
            /\ procs'[p].err = procs'[p].repoErr
            /\ cache' = cache
            /\ procs'[p].cset = ""
            /\ procs'[p].cacheCalls = 1]_vars

\* A read whose cache call failed found no row, and another whose store
\* read failed, both while the key of the user held a live entry.
C14_Witness ==
    \E p, q \in Procs :
        /\ GetDone(p) /\ GetDone(q) /\ procs[p].userID = procs[q].userID
        /\ procs[p].cget = "error" /\ procs[p].repoCalls = 1
        /\ procs[p].repoErr = "" /\ procs[p].repoUser = NilUser
        /\ procs[q].repoErr = "db error"
        /\ cache[CacheKey(procs[p].userID)].orig # NilUser
        /\ procs[p].cset = "" /\ procs[q].cset = ""

\* ------------------------------------------------------------------- C15
\* new is base with exactly the fields that partial fills replaced, the
\* password by a hash of the partial's.
Overlaid(new, base, partial) ==
    /\ new.ID = base.ID
    /\ new.ProfilePicture = base.ProfilePicture
    /\ new.FullName =
         (IF partial.FullName = "" THEN base.FullName ELSE partial.FullName)
    /\ new.Username =
         (IF partial.Username = <<>> THEN base.Username ELSE partial.Username)
    /\ new.Status =
         (IF partial.Status = "" THEN base.Status ELSE partial.Status)
    /\ new.Role = (IF partial.Role = "" THEN base.Role ELSE partial.Role)
    /\ IF partial.Password = "" THEN new.Password = base.Password
       ELSE /\ new.Password # partial.Password
            /\ CompareHashAndPassword(new.Password, partial.Password)

\* C15: the record an UpdateUserByID works on is the row the store holds
\* when the call reads it, whatever the cache holds under the key; the
\* record it persists is that row with exactly the non-empty fields of the
\* partial body replaced (the password by its hash), the id and the fields
\* the body leaves empty kept; the user it returns is the record it
\* persisted, which is the row of the store after the write.
C15_UpdateFromStore ==
    [][\A p \in Procs :
         /\ procs[p].pc = "upd_read" /\ procs'[p].pc = "upd_write"
            => /\ procs'[p].user = store[procs[p].userID]
               /\ procs'[p].user # NilUser
               /\ cache' = cache
         /\ procs[p].pc = "upd_write" /\ procs'[p].pc = "done"
              /\ procs'[p].err = ""
            => /\ Overlaid(procs'[p].handed, procs[p].user, procs[p].body)
               /\ procs'[p].ret = procs'[p].handed
               /\ procs'[p].rowThere
                  => store'[procs[p].userID] = procs'[p].ret
               /\ \A id \in UserIDs \ {procs[p].userID} :
                     store'[id] = store[id]]_vars

\* An update succeeded on a row while the key of the user held a live
\* entry of another record than the row the update had read.
C15_Witness ==
    \E p \in Procs :
        LET e == cache[CacheKey(procs[p].userID)]
        IN  /\ procs[p].pc = "done" /\ procs[p].op = "UpdateUserByID"
            /\ procs[p].userID # "" /\ procs[p].err = ""
            /\ procs[p].rowThere /\ ~procs[p].raced
            /\ procs[p].ret = store[procs[p].userID]
            /\ e.orig # NilUser /\ e.orig # procs[p].user
            /\ e.orig # procs[p].ret
            /\ procs[p].ret # procs[p].user

\* ------------------------------------------------------------------- C16
CredentialErrors == {"user not found", "incorrect password"}

\* C16: an AuthenticateUser calls the token issuer at most once, and only
\* after the lookup returned a user of the username given and the password
\* given verified against that user's hash; only a request that made that
\* call and saw it succeed hands back a token, and every other request
\* hands back the empty token; a request whose signing failed ends with an
\* error that is none of the credential errors.
C16_TokenOnlyAfterVerification ==
    \A p \in Procs :
        procs[p].op = "AuthenticateUser"
        => /\ procs[p].issuerCalls <= 1
           /\ procs[p].issuerCalls = 1
              => /\ procs[p].pc = "done" /\ procs[p].repoCalls = 1
                 /\ procs[p].user # NilUser
                 /\ procs[p].user.Username = procs[p].body.Username
                 /\ CompareHashAndPassword(procs[p].user.Password,
                                           procs[p].body.Password)
                 /\ procs[p].err \in {"", "failed to generate JWT token"}
           /\ procs[p].token # ""
              => procs[p].issuerCalls = 1 /\ procs[p].err = ""
           /\ procs[p].pc = "done" /\ procs[p].err # ""
              => procs[p].token = ""
           /\ procs[p].pc = "done" /\ procs[p].issuerCalls = 1
                /\ procs[p].token = ""
              => /\ procs[p].err # ""
                 /\ procs[p].err \notin CredentialErrors

\* One request was handed a token; another, with the same credentials,
\* was refused because signing failed; both called the issuer once.
C16_Witness ==
    \E p, q \in Procs :
        /\ procs[p].op = "AuthenticateUser" /\ procs[p].pc = "done"
        /\ procs[q].op = "AuthenticateUser" /\ procs[q].pc = "done"
        /\ procs[p].body = procs[q].body
        /\ procs[p].token # "" /\ procs[p].issuerCalls = 1
        /\ procs[q].token = "" /\ procs[q].issuerCalls = 1
        /\ procs[q].err = "failed to generate JWT token"

\* ------------------------------------------------------------------- C17
\* The key of id holds a serialized user that has not expired.
LiveEntry(id) == cache[CacheKey(id)].orig # NilUser

\* The row of id was created and is no longer in the store.
Deleted(id) == created[id].body # NilUser /\ store[id] = NilUser

\* The step is the cache read of request p.
CacheReadStep(p) ==
    IsGet(p) /\ procs[p].pc = "get_cache" /\ procs'[p].pc # "get_cache"

\* The step is the return of not-found by request p.
NotFoundStep(p) ==
    /\ IsGet(p) /\ procs[p].pc # "done" /\ procs'[p].pc = "done"
    /\ procs'[p].ret = NilUser /\ procs'[p].err = ""

\* C17 as claimed: every GetUserByID of a deleted user whose cache read
\* happens while the entry is live returns the cached user with no error,
\* and a GetUserByID returns not-found only when the key holds no live
\* entry.
C17_DeletedStayReadable ==
    [][\A p \in Procs :
         /\ CacheReadStep(p) /\ Deleted(procs[p].userID)
              /\ LiveEntry(procs[p].userID)
            => /\ procs'[p].pc = "done" /\ procs'[p].err = ""
               /\ procs'[p].ret = cache[CacheKey(procs[p].userID)].orig
         /\ NotFoundStep(p) => ~LiveEntry(procs[p].userID)]_vars

\* C17: every GetUserByID of a deleted user whose cache read is answered
\* by the cache (no transport error) while the entry is live returns the
\* cached user with no error and makes no store call; a GetUserByID
\* returns not-found only after its own cache read failed or found no
\* deserializable entry, and its store read found no row.
C17_DeletedReadableWhenCacheAnswers ==
    [][\A p \in Procs :
         /\ CacheReadStep(p) /\ Deleted(procs[p].userID)
              /\ LiveEntry(procs[p].userID) /\ procs'[p].cget # "error"
            => /\ procs'[p].pc = "done" /\ procs'[p].err = ""
               /\ procs'[p].ret = cache[CacheKey(procs[p].userID)].orig
               /\ procs'[p].repoCalls = 0
         /\ NotFoundStep(p)
            => /\ procs'[p].cget \in {"error", "miss", "undeserializable"}
               /\ procs'[p].repoCalls = 1
               /\ store[procs[p].userID] = NilUser]_vars

\* A read returned a user from the cache after the user had been created
\* and deleted, and the entry is still live.
C17_Witness ==
    \E p \in Procs :
        /\ GetDone(p) /\ procs[p].cget = "hit"
        /\ Deleted(procs[p].userID) /\ LiveEntry(procs[p].userID)
        /\ procs[p].ret # NilUser /\ procs[p].repoCalls = 0
        /\ procs[p].ret = cache[CacheKey(procs[p].userID)].orig

\* ------------------------------------------------------------------- C18
\* The service with a user in the store and nothing in the cache, store
\* and cache reachable from then on: reads, updates and deletes of users,
\* every call of the store and of the cache answered without error.
LiveInit ==
    /\ nextID = MaxUsers + 1
    /\ \E b \in ValidBodies :
         /\ store = [id \in UserIDs |->
                       [ID |-> id, FullName |-> b.FullName,
                        Username |-> b.Username,
                        Password |-> BcryptHash(b.Password, "s1"),
                        Status |-> b.Status, Role |-> b.Role,
                        ProfilePicture |-> ""]]
         /\ created = [id \in UserIDs |-> [body |-> b, touched |-> FALSE]]
    /\ cache = [k \in CacheKeys |-> NoEntry]
    /\ procs = [p \in Procs |-> Idle]

\* Request p makes its next call, or hands its answer to its caller.
ProcStep(p) ==
    \/ GetCacheRead(p, FALSE)
    \/ GetStoreRead(p, FALSE)
    \/ GetCacheWrite(p, FALSE)
    \/ UpdStoreRead(p, FALSE)
    \/ \E salt \in Salts : UpdStoreWrite(p, salt, FALSE)
    \/ DelStoreRead(p, FALSE)
    \/ DelStoreDelete(p, FALSE)
    \/ Return(p)

LiveNext ==
    \/ \E p \in Procs, userID \in UserIDs : GetCall(p, userID)
    \/ \E p \in Procs, userID \in UserIDs, body \in UpdateBodies :
            UpdCall(p, userID, body)
    \/ \E p \in Procs, userID \in UserIDs : DelCall(p, userID)
    \/ \E p \in Procs : ProcStep(p)
    \/ Tick

\* Every request that has started makes its next call in the end, and
\* time passes.
LiveSpec ==
    /\ LiveInit /\ [][LiveNext]_vars
    /\ \A p \in Procs : WF_vars(ProcStep(p))
    /\ WF_vars(Tick)

\* No UpdateUserByID or DeleteUserByID is running or waiting to answer.
NoWrites ==
    \A p \in Procs :
        procs[p].op \notin {"UpdateUserByID", "DeleteUserByID"}

\* Every finished GetUserByID holds what the store holds now: the row, or
\* no user where there is no row.
Converged ==
    \A p \in Procs :
        GetDone(p) => procs[p].err = "" /\ procs[p].ret = store[procs[p].userID]

====
